---- MODULE Spec2Model ----
(***************************************************************************)
(* Model of qstates_model.ipynb: generate_lattice (Voronoi grain lattice   *)
(* from randomly drawn distinct origins) and find_boundaries (cells with a *)
(* differently labelled clamped neighbour).                                *)
(*                                                                         *)
(* Coordinates are pairs <<i, j>>, 0-based as in numpy.  A lattice is a    *)
(* function from Grid(N) to labels.  Bases are integer 2x2 matrices, so    *)
(* that the == of line 98 is exact.                                        *)
(***************************************************************************)
EXTENDS Integers, Sequences, FiniteSets, TLC

\* Bounds of the model.
MaxSize == 2
MaxGrains == 3

\* The value every cell starts with (line 77), and the row origins starts with (line 80).
Unassigned == -1

VARIABLES
  pc,          \* position in the function being run
  SIZE,        \* the notebook's global SIZE at the time of the call (line 58)
  size,        \* generate_lattice: the size argument; find_boundaries: the local of line 145
  n_grains,    \* argument of generate_lattice
  basis,       \* argument of generate_lattice
  lattice,     \* the lattice under construction / the lattice argument
  origins,     \* origins[k+1] is row k of the numpy array origins
  o_count,     \* number of accepted origins
  nn_f,        \* find_boundaries: the neighbour function argument
  pos,         \* find_boundaries: number of cells scanned, i = pos \div size, j = pos % size
  nn,          \* find_boundaries: the local nn of line 151 (sorted unique clipped rows)
  boundaries,  \* find_boundaries: the list boundaries
  calls,       \* number of find_boundaries calls made on this lattice
  first        \* what the first of these calls returned

vars == <<pc, SIZE, size, n_grains, basis, lattice, origins, o_count,
          nn_f, pos, nn, boundaries, calls, first>>

genVars == <<SIZE, n_grains, basis, origins, o_count>>
fbVars == <<nn_f, pos, nn, boundaries, calls, first>>

----------------------------------------------------------------------------
(* Helpers shared by both functions *)

\* range(N) x range(N): the index set of an N x N array.
Grid(N) == (0 .. N - 1) \X (0 .. N - 1)

\* Mutant of CellAt: the loops run column by column.
CellAtColumnMajor(N, k) == <<k % N, k \div N>>

\* The cell the nested loops `for i in range(N): for j in range(N)` visit k-th.
CellAt(N, k) == <<k \div N, k % N>>

----------------------------------------------------------------------------
(* generate_lattice(size, n_grains, basis) *)

\* 2x2 bases the caller may pass: identity (line 103), a singular one, a shear.
Bases ==
  { << <<1, 0>>, <<0, 1>> >>,
    << <<1, 0>>, <<0, 0>> >>,
    << <<1, 1>>, <<0, 1>> >> }

\* Mutant of MatVec: the row vector times the basis (the transpose of the basis applied).
MatVecTransposed(b, v) ==
  <<b[1][1] * v[1] + b[2][1] * v[2], b[1][2] * v[1] + b[2][2] * v[2]>>

\* np.matmul(basis, rel.T).T, one row: basis . v
MatVec(b, v) ==
  <<b[1][1] * v[1] + b[1][2] * v[2], b[2][1] * v[1] + b[2][2] * v[2]>>

\* One entry of sq_dist: |basis . ([i, j] - origin)|^2
SqDist(b, c, o) ==
  LET cart_rel == MatVec(b, <<c[1] - o[1], c[2] - o[2]>>)
  IN  cart_rel[1] * cart_rel[1] + cart_rel[2] * cart_rel[2]

\* np.where(sq_dist == sq_dist.min())[0], as the set of 0-based indices
ArgMin(b, c, org) ==
  {k \in 0 .. Len(org) - 1 :
     \A m \in 0 .. Len(org) - 1 : SqDist(b, c, org[k + 1]) <= SqDist(b, c, org[m + 1])}

\* p in origins[:o_count].tolist()
InOrigins(q, org, cnt) == \E k \in 1 .. cnt : org[k] = q

\* The lattices the fill loops can leave, from the k-th cell on: a cell still
\* Unassigned gets any index np.random.choice may return, every other cell is skipped.
RECURSIVE FillFrom(_, _, _, _, _)
FillFrom(lat, N, k, b, org) ==
  IF k >= N * N THEN {lat}
  ELSE LET c == CellAt(N, k)
       IN  IF lat[c] = Unassigned
           THEN UNION {FillFrom([lat EXCEPT ![c] = g], N, k + 1, b, org) : g \in ArgMin(b, c, org)}
           ELSE FillFrom(lat, N, k + 1, b, org)

\* The call generate_lattice(size, n_grains, basis), nothing executed yet.
InitGen ==
  /\ pc = "gen_entry"
  /\ SIZE \in 1 .. MaxSize
  /\ size \in 1 .. MaxSize
  /\ n_grains \in 1 .. MaxGrains
  /\ basis \in Bases
  /\ lattice = <<>>
  /\ origins = <<>>
  /\ o_count = 0
  /\ nn_f = "none"
  /\ pos = 0
  /\ nn = <<>>
  /\ boundaries = <<>>
  /\ calls = 0
  /\ first = <<>>

\* Lines 77-81: allocate lattice and origins, o_count = 0.
GenEnter ==
  /\ pc = "gen_entry"
  /\ lattice' = [c \in Grid(SIZE) |-> Unassigned]
  /\ origins' = [k \in 1 .. n_grains |-> <<Unassigned, Unassigned>>]
  /\ o_count' = 0
  /\ pc' = "sample"
  /\ UNCHANGED <<SIZE, size, n_grains, basis>>
  /\ UNCHANGED fbVars

\* Lines 82-87, one iteration of the while loop in which randint draws p = q.
\* (p is dead after the iteration and is not kept in the state: a rejected draw
\* leaves the state as it was.)
Sample(q) ==
  /\ pc = "sample"
  /\ o_count < n_grains
  /\ q \in Grid(SIZE)
  /\ IF ~InOrigins(q, origins, o_count)
     THEN /\ origins' = [origins EXCEPT ![o_count + 1] = q]
          /\ lattice' = [lattice EXCEPT ![q] = o_count]
          /\ o_count' = o_count + 1
     ELSE UNCHANGED <<origins, lattice, o_count>>
  /\ UNCHANGED <<pc, SIZE, size, n_grains, basis>>
  /\ UNCHANGED fbVars

\* Line 82, the test that ends the while loop.
ExitSample ==
  /\ pc = "sample"
  /\ ~(o_count < n_grains)
  /\ pc' = "fill"
  /\ UNCHANGED <<SIZE, size, n_grains, basis, lattice, origins, o_count>>
  /\ UNCHANGED fbVars

\* Lines 90-100: the fill loops and the return.
Fill ==
  /\ pc = "fill"
  /\ lattice' \in FillFrom(lattice, SIZE, 0, basis, origins)
  /\ pc' = "gen_return"
  /\ UNCHANGED <<SIZE, size, n_grains, basis, origins, o_count>>
  /\ UNCHANGED fbVars

NextGen ==
  \/ GenEnter
  \/ \E q \in Grid(SIZE) : Sample(q)
  \/ ExitSample
  \/ Fill

SpecGen == InitGen /\ [][NextGen]_vars

\* The random source is fair: every coordinate is drawn again and again, and the
\* interpreter keeps running the function.
FairSpecGen ==
  /\ SpecGen
  /\ WF_vars(GenEnter \/ ExitSample \/ Fill)
  /\ \A q \in Grid(MaxSize) : WF_vars(Sample(q))

----------------------------------------------------------------------------
(* find_boundaries(lattice, nn_f) *)

\* Labels of the lattices handed to find_boundaries: the sentinel and two grain ids.
Labels == {Unassigned, 0, 1}

\* The square lattices handed to find_boundaries.
InputLattices == UNION {[Grid(N) -> Labels] : N \in 1 .. MaxSize}

\* The neighbour functions handed to find_boundaries: the notebook's 4-neighbour
\* lambda, the 8-neighbour one, two lopsided ones, and one that ignores its argument.
NeighborFns == {"von_neumann", "moore", "left", "far", "corner"}

\* nn_f(np.array([i, j])): the rows of the array the neighbour function returns.
NN(f, c) ==
  CASE f = "von_neumann" ->
         << <<c[1], c[2] - 1>>, <<c[1] - 1, c[2]>>, <<c[1], c[2] + 1>>, <<c[1] + 1, c[2]>> >>
    [] f = "moore" ->
         << <<c[1] - 1, c[2] - 1>>, <<c[1] - 1, c[2]>>, <<c[1] - 1, c[2] + 1>>,
            <<c[1], c[2] - 1>>, <<c[1], c[2] + 1>>,
            <<c[1] + 1, c[2] - 1>>, <<c[1] + 1, c[2]>>, <<c[1] + 1, c[2] + 1>> >>
    [] f = "left" -> << <<c[1], c[2] - 1>> >>
    [] f = "far" -> << <<c[1], c[2] - 2>>, <<c[1] + 3, c[2]>> >>
    [] f = "corner" -> << <<0, 0>> >>

\* lattice.shape[0]
Shape0(lat) == Cardinality({c[1] : c \in DOMAIN lat})

\* Mutant of ClipVal: the value is not clipped.
ClipNone(x, lo, hi) == x

\* np.clip on one component
ClipVal(x, lo, hi) == IF x < lo THEN lo ELSE IF x > hi THEN hi ELSE x

\* np.clip(rows, lo, hi): every component of every row
Clip(rows, lo, hi) ==
  [k \in DOMAIN rows |-> <<ClipVal(rows[k][1], lo, hi), ClipVal(rows[k][2], lo, hi)>>]

\* The order np.unique(..., axis=0) returns rows in
RowLess(a, b) == a[1] < b[1] \/ (a[1] = b[1] /\ a[2] < b[2])

RECURSIVE SortRows(_)
SortRows(S) ==
  IF S = {} THEN <<>>
  ELSE LET m == CHOOSE x \in S : \A y \in S \ {x} : RowLess(x, y)
       IN  <<m>> \o SortRows(S \ {m})

\* np.unique(rows, axis=0): the distinct rows, sorted
Unique(rows) == SortRows({rows[k] : k \in DOMAIN rows})

\* numpy accepts an index x of an axis of length N when -N <= x < N
IndexOk(N, n) == /\ -N <= n[1] /\ n[1] < N
                 /\ -N <= n[2] /\ n[2] < N

\* Mutant of Read: the two indices are swapped, lattice[n[1], n[0]].
ReadTransposed(lat, N, n) == lat[<<n[2] % N, n[1] % N>>]

\* lattice[n[0], n[1]]: a negative index counts from the end
Read(lat, N, n) == lat[<<n[1] % N, n[2] % N>>]

\* Mutant of InnerLoop: the break of line 157 is missing.
RECURSIVE InnerLoopNoBreak(_, _, _, _, _, _)
InnerLoopNoBreak(lat, N, grain, c, rows, bnd) ==
  IF rows = <<>> THEN [err |-> FALSE, bnd |-> bnd]
  ELSE IF ~IndexOk(N, Head(rows)) THEN [err |-> TRUE, bnd |-> bnd]
  ELSE IF Read(lat, N, Head(rows)) # grain
       THEN InnerLoopNoBreak(lat, N, grain, c, Tail(rows), Append(bnd, c))
       ELSE InnerLoopNoBreak(lat, N, grain, c, Tail(rows), bnd)

\* Lines 152-157: `for n in nn`, appending [i, j] at the first neighbour that
\* differs and breaking.  err: the read raised IndexError.
RECURSIVE InnerLoop(_, _, _, _, _, _)
InnerLoop(lat, N, grain, c, rows, bnd) ==
  IF rows = <<>> THEN [err |-> FALSE, bnd |-> bnd]
  ELSE IF ~IndexOk(N, Head(rows)) THEN [err |-> TRUE, bnd |-> bnd]
  ELSE IF Read(lat, N, Head(rows)) # grain
       THEN [err |-> FALSE, bnd |-> Append(bnd, c)]
       ELSE InnerLoop(lat, N, grain, c, Tail(rows), bnd)

\* Mutant of NewBoundaries: the list of the previous call is used again.
StaleBoundaries == boundaries

\* Line 146: boundaries = []
NewBoundaries == <<>>

\* The call find_boundaries(lattice, nn_f), nothing executed yet.
InitFind ==
  /\ pc = "fb_entry"
  /\ lattice \in InputLattices
  /\ nn_f \in NeighborFns
  /\ SIZE = 0
  /\ size = 0
  /\ n_grains = 0
  /\ basis = <<>>
  /\ origins = <<>>
  /\ o_count = 0
  /\ pos = 0
  /\ nn = <<>>
  /\ boundaries = <<>>
  /\ calls = 1
  /\ first = <<>>

\* Lines 145-146.
FbEnter ==
  /\ pc = "fb_entry"
  /\ size' = Shape0(lattice)
  /\ boundaries' = NewBoundaries
  /\ pos' = 0
  /\ pc' = "scan"
  /\ UNCHANGED <<lattice, nn_f, nn, calls, first>>
  /\ UNCHANGED genVars

\* Lines 147-159, one iteration of the loops over i and j; after the last one
\* the function returns np.array(boundaries).
ScanCell ==
  /\ pc = "scan"
  /\ pos < size * size
  /\ LET c == CellAt(size, pos)
         grain == lattice[c]
         rows == Unique(Clip(NN(nn_f, c), 0, size - 1))
         r == InnerLoop(lattice, size, grain, c, rows, boundaries)
     IN  /\ nn' = rows
         /\ IF r.err
            THEN /\ pc' = "IndexError"
                 /\ UNCHANGED <<boundaries, pos>>
            ELSE /\ boundaries' = r.bnd
                 /\ pos' = pos + 1
                 /\ pc' = IF pos + 1 < size * size THEN "scan" ELSE "fb_return"
  /\ UNCHANGED <<lattice, nn_f, size, calls, first>>
  /\ UNCHANGED genVars

\* The caller keeps what the first call returned and calls find_boundaries
\* again with the same lattice and the same neighbour function.
CallAgain ==
  /\ pc = "fb_return"
  /\ calls = 1
  /\ first' = boundaries
  /\ calls' = calls + 1
  /\ pc' = "fb_entry"
  /\ UNCHANGED <<lattice, nn_f, size, pos, nn, boundaries>>
  /\ UNCHANGED genVars

NextFind ==
  \/ FbEnter
  \/ ScanCell
  \/ CallAgain

SpecFind == InitFind /\ [][NextFind]_vars

----------------------------------------------------------------------------
(* Claims about generate_lattice, checked under SpecGen / FairSpecGen *)

\* C1: the returned lattice has shape size x size, size being the argument of
\* the call, and every cell holds a grain id in [0, n_grains).
C1_ShapeAndLabels ==
  pc = "gen_return" =>
    /\ DOMAIN lattice = (0 .. size - 1) \X (0 .. size - 1)
    /\ \A c \in DOMAIN lattice : lattice[c] \in 0 .. n_grains - 1

\* C2: in the returned lattice every cell that is not an origin holds the index
\* of an origin at minimal squared distance |basis . (cell - origin)|^2 among
\* all n_grains origins, for every basis, singular ones included.
C2_NearestOrigin ==
  pc = "gen_return" =>
    \A c \in DOMAIN lattice :
      (\A k \in 1 .. n_grains : origins[k] # c) =>
        /\ lattice[c] \in 0 .. n_grains - 1
        /\ LET d(o) ==
                 LET dx == c[1] - o[1]
                     dy == c[2] - o[2]
                     x == basis[1][1] * dx + basis[1][2] * dy
                     y == basis[2][1] * dx + basis[2][2] * dy
                 IN  x * x + y * y
           IN  \A m \in 1 .. n_grains : d(origins[lattice[c] + 1]) <= d(origins[m])

\* C2's case: a returned lattice with a cell that is no origin, has two origins
\* tied for the minimum under a singular basis, and holds the higher tied index.
C2_Witness ==
  /\ pc = "gen_return"
  /\ basis[2] = <<0, 0>>
  /\ \E c \in DOMAIN lattice :
       /\ \A k \in 1 .. n_grains : origins[k] # c
       /\ lattice[c] > 0
       /\ Cardinality(ArgMin(basis, c, origins)) >= 2

\* C3: the accepted origins are pairwise distinct coordinates of
\* [0, size) x [0, size), the k-th accepted origin's cell holds k, also in the
\* returned lattice.
C3_Origins ==
  pc \in {"sample", "fill", "gen_return"} =>
    /\ \A k \in 1 .. o_count : origins[k] \in (0 .. size - 1) \X (0 .. size - 1)
    /\ \A k, m \in 1 .. o_count : k # m => origins[k] # origins[m]
    /\ \A k \in 1 .. o_count : lattice[origins[k]] = k - 1

\* C4: a call with n_grains > size*size fails with InvalidGrainCount: it never
\* gets into the sampling loop, the fill pass or the return.
C4_InvalidGrainCount ==
  n_grains > size * size => pc \in {"gen_entry", "InvalidGrainCount"}

\* C9, as a statement about finite runs: with 0 < n_grains <= size*size the
\* sampling loop can always still accept some coordinate (so that a fair random
\* source ends it), and when n_grains = size*size every cell is an origin at
\* the end of the loop, leaving the fill pass nothing to assign.
C9_LoopEnds ==
  (0 < n_grains /\ n_grains <= size * size) =>
    /\ (pc = "sample" /\ o_count < n_grains) =>
         \E q \in DOMAIN lattice : \A k \in 1 .. o_count : origins[k] # q
    /\ (pc = "fill" /\ n_grains = size * size) =>
         \A c \in DOMAIN lattice : lattice[c] # Unassigned

\* C9, as a statement about fair runs (FairSpecGen): the call returns.
C9_Terminates ==
  (pc = "gen_entry" /\ 0 < n_grains /\ n_grains <= size * size) ~> (pc = "gen_return")

----------------------------------------------------------------------------
(* Claims about find_boundaries, checked under SpecFind *)

\* C5: on a fully labelled square lattice the result is exactly the cells with
\* a clamped neighbour of a different id, in row-major order, none twice.
C5_ExactRowMajor ==
  (pc = "fb_return" /\ \A c \in DOMAIN lattice : lattice[c] # Unassigned) =>
    LET N == CHOOSE n \in 1 .. MaxSize : DOMAIN lattice = (0 .. n - 1) \X (0 .. n - 1)
        clamp(x) == IF x < 0 THEN 0 ELSE IF x > N - 1 THEN N - 1 ELSE x
        cand(c) == NN(nn_f, c)
        expected ==
          {c \in DOMAIN lattice :
             \E k \in DOMAIN cand(c) :
               lattice[<<clamp(cand(c)[k][1]), clamp(cand(c)[k][2])>>] # lattice[c]}
        rank(c) == c[1] * N + c[2]
    IN  /\ {boundaries[k] : k \in DOMAIN boundaries} = expected
        /\ \A k \in 1 .. Len(boundaries) - 1 : rank(boundaries[k]) < rank(boundaries[k + 1])

\* C5's case: a call on a fully labelled lattice returned, with the 4-neighbour
\* function, several boundary cells, and a cell that is no boundary.
C5_Witness ==
  /\ pc = "fb_return"
  /\ nn_f = "von_neumann"
  /\ \A c \in DOMAIN lattice : lattice[c] # Unassigned
  /\ Len(boundaries) >= 2
  /\ Len(boundaries) < Cardinality(DOMAIN lattice)

\* C6: find_boundaries on a lattice with an unassigned cell fails with
\* InvalidLattice: it returns no boundary sequence.
C6_RejectsUnassigned ==
  pc = "fb_return" => \A c \in DOMAIN lattice : lattice[c] # Unassigned

\* C7: no step of find_boundaries changes a cell of the lattice, and the
\* second of two successive calls returns what the first returned.
C7_Repeatable ==
  [][ /\ lattice' = lattice
      /\ (calls' = 2 /\ pc' = "fb_return") => boundaries' = first' ]_vars

\* C7's case: the second call returned a sequence that is not empty.
C7_Witness ==
  /\ calls = 2
  /\ pc = "fb_return"
  /\ boundaries # <<>>

\* C8: the returned sequence has at most size*size entries, and it is empty
\* when all cells hold the same id.
C8_Bounded ==
  pc = "fb_return" =>
    /\ Len(boundaries) <= Cardinality(DOMAIN lattice)
    /\ (\A c, d \in DOMAIN lattice : lattice[c] = lattice[d]) => boundaries = <<>>

\* C8's case: a call on a uniform lattice of more than one cell returned.
C8_Witness ==
  /\ pc = "fb_return"
  /\ Cardinality(DOMAIN lattice) > 1
  /\ \A c, d \in DOMAIN lattice : lattice[c] = lattice[d]
  /\ nn_f = "moore"

\* C10: the neighbours read for a cell are the candidates with each component
\* clamped into [0, size-1]: every read is in range (no IndexError).  With the
\* 4-neighbour function the neighbours are the cell itself or cells next to it,
\* an out-of-range candidate clamps to the cell itself, and a reported cell has
\* a cell next to it with a different id.  With the left-neighbour function a
\* cell of column 0 is never reported, whatever the last column holds.
C10_Clamped ==
  /\ pc # "IndexError"
  /\ (pc \in {"scan", "fb_return"} /\ pos > 0) =>
       LET c == <<(pos - 1) \div size, (pos - 1) % size>>
           clamp(x) == IF x < 0 THEN 0 ELSE IF x > size - 1 THEN size - 1 ELSE x
           cand == NN(nn_f, c)
           read == {nn[k] : k \in DOMAIN nn}
           next(a, b) == (a[1] - b[1]) * (a[1] - b[1]) + (a[2] - b[2]) * (a[2] - b[2]) = 1
       IN  /\ \A n \in read : /\ 0 <= n[1] /\ n[1] <= size - 1
                             /\ 0 <= n[2] /\ n[2] <= size - 1
           /\ read = {<<clamp(cand[k][1]), clamp(cand[k][2])>> : k \in DOMAIN cand}
           /\ nn_f = "von_neumann" =>
                /\ \A n \in read : n = c \/ next(n, c)
                /\ \A k \in DOMAIN cand :
                     cand[k] \notin DOMAIN lattice => c \in read
                /\ \A k \in DOMAIN boundaries :
                     \E d \in DOMAIN lattice :
                       next(d, boundaries[k]) /\ lattice[d] # lattice[boundaries[k]]
           /\ nn_f = "left" =>
                \A k \in DOMAIN boundaries :
                  /\ boundaries[k][2] >= 1
                  /\ lattice[<<boundaries[k][1], boundaries[k][2] - 1>>] # lattice[boundaries[k]]

\* C10's case: the left-neighbour scan of a lattice of several columns
\* returned; the cell at the other end of row 0 differs from cell (0, 0), whose
\* candidate (0, -1) is out of range, and (0, 0) is not reported.
C10_Witness ==
  /\ pc = "fb_return"
  /\ nn_f = "left"
  /\ size >= 2
  /\ lattice[<<0, 0>>] # lattice[<<0, size - 1>>]
  /\ \A k \in DOMAIN boundaries : boundaries[k] # <<0, 0>>

\* C11: with the 4-neighbour function boundary membership is mutual: every
\* reported cell has a cell next to it, inside the lattice, that holds a
\* different id and is reported too; so a lattice holding two different ids
\* never yields the empty sequence.
C11_Mutual ==
  (pc = "fb_return" /\ nn_f = "von_neumann") =>
    LET reported == {boundaries[k] : k \in DOMAIN boundaries}
        adjacent(a, b) ==
          \/ (a[1] = b[1] /\ (a[2] = b[2] + 1 \/ a[2] = b[2] - 1))
          \/ (a[2] = b[2] /\ (a[1] = b[1] + 1 \/ a[1] = b[1] - 1))
    IN  /\ \A c \in reported :
             \E d \in DOMAIN lattice :
               /\ adjacent(c, d)
               /\ lattice[d] # lattice[c]
               /\ d \in reported
        /\ (\E c, d \in DOMAIN lattice : lattice[c] # lattice[d]) => reported # {}

\* C11's case: the first 4-neighbour scan of a lattice holding two different
\* ids returned; some cells are reported and some are not.
C11_Witness ==
  /\ pc = "fb_return"
  /\ calls = 1
  /\ nn_f = "von_neumann"
  /\ \E c, d \in DOMAIN lattice : lattice[c] # lattice[d]
  /\ boundaries # <<>>
  /\ \E c \in DOMAIN lattice : \A k \in DOMAIN boundaries : boundaries[k] # c

====
